---- MODULE Spec2Model ----
(***************************************************************************)
(* costday: an expense-tracking backend.  The model covers the relational  *)
(* store (users, books, user_book, categories, records), the CRUD          *)
(* functions of crud.py, the HTTP handlers of main.py that wrap them, the  *)
(* startup seeding and the bearer-token login / current-user resolution.   *)
(***************************************************************************)
EXTENDS Integers, Sequences, FiniteSets, TLC

\* ------------------------------------------------------------------ bounds
\* Largest primary key the model lets users and books grow to.
MaxId == 2
\* Largest primary key the model lets categories grow to (one seeding run
\* stores thirteen).
MaxCategoryId == 14
\* Last instant of the clock.
MaxClock == 3

\* ------------------------------------------------------------ input spaces
Usernames == {"admin", "test", "bob"}
Passwords == {"admin", "test"}
\* The keys a client addresses in a get, update or delete.
IdInputs == {1, 2}

\* Python's None for a function result; NULL for an integer column.
None == [tag |-> "None"]
Null == 0

Max(S) == CHOOSE x \in S : \A y \in S : y <= x
Min(S) == CHOOSE x \in S : \A y \in S : x <= y

\* schemas.UserCreate bodies a client may send: a fresh user, a fresh email
\* under a seeded username, a seeded email under a fresh username.
UserCreate ==
    { [email |-> "bob@126.com", username |-> "bob", password |-> "test"],
      [email |-> "bob@126.com", username |-> "admin", password |-> "admin"],
      [email |-> "admin@126.com", username |-> "bob", password |-> "admin"] }

\* schemas.CategoryCreate body a client may send.
CategoryCreate == { [parent_id |-> Null, icon |-> 12, en_name |-> "Pets"] }

\* schemas.BookCreate bodies: members is a list of schemas.User.
BookCreate ==
    { [name |-> "trip", members |-> << >>],
      [name |-> "trip", members |-> <<[id |-> 1, email |-> "admin@126.com", username |-> "admin"]>>] }

\* schemas.RecordCreate bodies; type_ defaults to 1.
RecordCreate ==
    { [amount |-> 100, note |-> "test", category_id |-> c, book_id |-> 1, type_ |-> 1] : c \in {1, 2} }

\* ------------------------------------------------------------------- state
VARIABLES
    db,      \* the relational store behind SessionLocal
    now,     \* wall clock, in token-lifetime units
    token,   \* the bearer token the client holds (None before any login)
    last     \* the last call: [op, arg, res, rep]

vars == <<db, now, token, last>>

\* --------------------------------------------------------------- database
\* Primary key given to a new row: one past the largest key of the table.
NextId(table) == IF DOMAIN table = {} THEN 1 ELSE Max(DOMAIN table) + 1

\* table with one more row.
Insert(table, id, row) == [i \in DOMAIN table \cup {id} |-> IF i = id THEN row ELSE table[i]]

\* table without the row of key id.
Remove(table, id) == [i \in DOMAIN table \ {id} |-> table[i]]

\* The store after models.Base.metadata.create_all on a fresh database.
EmptyDb ==
    [users |-> << >>, books |-> << >>, user_book |-> {},
     categories |-> << >>, records |-> << >>]

\* The columns and relationships of models.Record: the keywords its
\* constructor accepts.
RecordAttributes ==
    {"id", "amount", "note", "category_id", "book_id", "add_by", "add_at", "book", "category"}

\* Whether the backing store checks ForeignKey columns on insert and delete.
ForeignKeysEnforced == TRUE

\* ------------------------------------------------------------------- auth
SECRET_KEY == "SECRET_KEY"

\* auth.ACCESS_TOKEN_EXPIRE_MINUTES, in clock units.
ACCESS_TOKEN_EXPIRE_MINUTES == 2

\* auth.get_password_hash: a one-way digest of the password.
get_password_hash(password) == <<"bcrypt", password>>

\* auth.verify_password: whether the password matches the stored hash.
verify_password(password, hashed_password) == hashed_password = <<"bcrypt", password>>

\* auth.create_access_token: the claims, with the absolute expiry, signed.
create_access_token(data, expires_delta, t) ==
    [claims |-> [sub |-> data.sub, exp |-> t + expires_delta], key |-> SECRET_KEY]

\* jose.jwt.decode: the claims, or JWTError for a signature made with
\* another key or an expiry before the current time.
jwt_decode(tok, key, t) ==
    IF tok.key # key THEN "JWTError"
    ELSE IF tok.claims.exp < t THEN "JWTError"
    ELSE "ok"

\* ------------------------------------------------------------- crud: users
get_user(d, user_id) ==
    IF user_id \in DOMAIN d.users THEN [id |-> user_id, row |-> d.users[user_id]] ELSE None

\* .first() of the filter: the matching row of least key.
get_user_by_email(d, email) ==
    LET hit == {i \in DOMAIN d.users : d.users[i].email = email}
    IN  IF hit = {} THEN None ELSE [id |-> Min(hit), row |-> d.users[Min(hit)]]

get_user_by_username(d, username) ==
    LET hit == {i \in DOMAIN d.users : d.users[i].username = username}
    IN  IF hit = {} THEN None ELSE [id |-> Min(hit), row |-> d.users[Min(hit)]]

\* authenticate_user without its verify_password test.
authenticate_user_NoVerify(d, username, password) ==
    LET user == get_user_by_username(d, username)
    IN  IF user = None THEN None ELSE user

\* crud.authenticate_user: the user, or None (the code's False).
authenticate_user(d, username, password) ==
    LET user == get_user_by_username(d, username)
    IN  IF user = None THEN None
        ELSE IF ~verify_password(password, user.row.hashed_password) THEN None
        ELSE user

\* get_current_user with JWTError passed over instead of answered with 401.
get_current_user_JWTErrorIgnored(d, tok, t) ==
    IF "sub" \notin DOMAIN tok.claims THEN [status |-> 401, body |-> None]
    ELSE LET user == get_user_by_username(d, tok.claims.sub)
         IN  IF user = None THEN [status |-> 401, body |-> None]
             ELSE [status |-> 200, body |-> user]

\* get_current_user without its test for a user that is None.
get_current_user_UserUnchecked(d, tok, t) ==
    IF jwt_decode(tok, SECRET_KEY, t) = "JWTError" THEN [status |-> 401, body |-> None]
    ELSE IF "sub" \notin DOMAIN tok.claims THEN [status |-> 401, body |-> None]
    ELSE [status |-> 200, body |-> get_user_by_username(d, tok.claims.sub)]

\* crud.get_current_user: the user the token names, or 401.
get_current_user(d, tok, t) ==
    IF jwt_decode(tok, SECRET_KEY, t) = "JWTError" THEN [status |-> 401, body |-> None]
    ELSE IF "sub" \notin DOMAIN tok.claims THEN [status |-> 401, body |-> None]
    ELSE LET user == get_user_by_username(d, tok.claims.sub)
         IN  IF user = None THEN [status |-> 401, body |-> None]
             ELSE [status |-> 200, body |-> user]

\* models.User with unique=True on email alone.
UserUniqueOk_EmailOnly(d, email, username) ==
    \A i \in DOMAIN d.users : d.users[i].email # email

\* The unique=True columns of models.User: whether a row with this email and
\* username may be added.
UserUniqueOk(d, email, username) ==
    \A i \in DOMAIN d.users :
        d.users[i].email # email /\ d.users[i].username # username

\* crud.create_user: add, commit, refresh.  The commit raises IntegrityError
\* when a unique column would repeat, and then nothing is stored.
crud_create_user(d, user) ==
    IF UserUniqueOk(d, user.email, user.username)
    THEN LET id == NextId(d.users)
             row == [email |-> user.email, username |-> user.username,
                     hashed_password |-> get_password_hash(user.password)]
         IN  [db |-> [d EXCEPT !.users = Insert(d.users, id, row)],
              err |-> "none", ret |-> [id |-> id, row |-> row]]
    ELSE [db |-> d, err |-> "IntegrityError", ret |-> None]

\* crud.delete_user: the row goes, and with it the user's user_book rows
\* (the secondary of User.books).  A record whose add_by names the user
\* keeps it, which an enforced foreign key refuses.
crud_delete_user(d, user_id) ==
    IF get_user(d, user_id) = None THEN [db |-> d, err |-> "none", ret |-> None]
    ELSE IF ForeignKeysEnforced /\ \E r \in DOMAIN d.records : d.records[r].add_by = user_id
    THEN [db |-> d, err |-> "IntegrityError", ret |-> None]
    ELSE [db |-> [d EXCEPT !.users = Remove(d.users, user_id),
                           !.user_book = {m \in d.user_book : m[1] # user_id}],
          err |-> "none", ret |-> None]

\* crud.update_user without its test for a row that is None.
crud_update_user_Unguarded(d, user_id, user) ==
    [db |-> d, err |-> "AttributeError", ret |-> None]

\* crud.update_user: None for a key with no row.  For a stored row the call
\* db_user.update(...) fails, since models.User has no update attribute;
\* nothing is committed.
crud_update_user(d, user_id, user) ==
    IF get_user(d, user_id) = None THEN [db |-> d, err |-> "none", ret |-> None]
    ELSE [db |-> d, err |-> "AttributeError", ret |-> None]

\* ----------------------------------------------------------- crud: records
get_record(d, record_id) ==
    IF record_id \in DOMAIN d.records
    THEN [id |-> record_id, row |-> d.records[record_id]] ELSE None

\* Whether a records row passes its three ForeignKey columns (NULL passes).
RecordForeignKeysOk(d, row) ==
    /\ row.category_id = Null \/ row.category_id \in DOMAIN d.categories
    /\ row.book_id = Null \/ row.book_id \in DOMAIN d.books
    /\ row.add_by = Null \/ row.add_by \in DOMAIN d.users

\* crud.create_user_record(db, record, user_id).  user_id is required: a
\* call without it (user_id = None) is a TypeError.  models.Record(
\* **record.dict(), add_by=..., add_at=...) is a TypeError for every keyword
\* that is no attribute of models.Record; record.dict() carries type_.
create_user_record(d, record, user_id, t) ==
    IF user_id = None THEN [db |-> d, err |-> "TypeError", ret |-> None]
    ELSE IF ~(DOMAIN record \subseteq RecordAttributes)
    THEN [db |-> d, err |-> "TypeError", ret |-> None]
    ELSE LET id == NextId(d.records)
             row == [amount |-> record.amount, note |-> record.note,
                     category_id |-> record.category_id, book_id |-> record.book_id,
                     add_by |-> user_id.id, add_at |-> t]
         IN  IF ForeignKeysEnforced /\ ~RecordForeignKeysOk(d, row)
             THEN [db |-> d, err |-> "IntegrityError", ret |-> None]
             ELSE [db |-> [d EXCEPT !.records = Insert(d.records, id, row)],
                   err |-> "none", ret |-> [id |-> id, row |-> row]]

crud_delete_record(d, record_id) ==
    IF get_record(d, record_id) = None THEN [db |-> d, err |-> "none", ret |-> None]
    ELSE [db |-> [d EXCEPT !.records = Remove(d.records, record_id)],
          err |-> "none", ret |-> None]

\* crud.update_record: as crud.update_user.
crud_update_record(d, record_id, record) ==
    IF get_record(d, record_id) = None THEN [db |-> d, err |-> "none", ret |-> None]
    ELSE [db |-> d, err |-> "AttributeError", ret |-> None]

\* -------------------------------------------------------- crud: categories
get_category(d, category_id) ==
    IF category_id \in DOMAIN d.categories
    THEN [id |-> category_id, row |-> d.categories[category_id]] ELSE None

crud_create_category(d, category) ==
    LET id == NextId(d.categories)
        row == [parent_id |-> category.parent_id, icon |-> category.icon,
                en_name |-> category.en_name]
    IN  [db |-> [d EXCEPT !.categories = Insert(d.categories, id, row)],
         err |-> "none", ret |-> [id |-> id, row |-> row]]

\* crud.delete_category: the row goes; Category.records has no delete
\* cascade, so the records of the category get category_id NULL.
crud_delete_category(d, category_id) ==
    IF get_category(d, category_id) = None THEN [db |-> d, err |-> "none", ret |-> None]
    ELSE [db |-> [d EXCEPT
                    !.categories = Remove(d.categories, category_id),
                    !.records = [r \in DOMAIN d.records |->
                        IF d.records[r].category_id = category_id
                        THEN [d.records[r] EXCEPT !.category_id = Null]
                        ELSE d.records[r]]],
          err |-> "none", ret |-> None]

crud_update_category(d, category_id, category) ==
    IF get_category(d, category_id) = None THEN [db |-> d, err |-> "none", ret |-> None]
    ELSE [db |-> d, err |-> "AttributeError", ret |-> None]

\* ------------------------------------------------------------- crud: books
get_book(d, book_id) ==
    IF book_id \in DOMAIN d.books THEN [id |-> book_id, row |-> d.books[book_id]] ELSE None

\* crud.create_book: models.Book(**book.dict()).  book.dict() turns members
\* into plain dicts, which the members relationship refuses unless the list
\* is empty.
crud_create_book(d, book) ==
    IF book.members # << >> THEN [db |-> d, err |-> "AttributeError", ret |-> None]
    ELSE LET id == NextId(d.books)
             row == [name |-> book.name]
         IN  [db |-> [d EXCEPT !.books = Insert(d.books, id, row)],
              err |-> "none", ret |-> [id |-> id, row |-> row]]

crud_update_book(d, book_id, book) ==
    IF get_book(d, book_id) = None THEN [db |-> d, err |-> "none", ret |-> None]
    ELSE [db |-> d, err |-> "AttributeError", ret |-> None]

\* crud.delete_book without its test for a row that is None: db.delete(None)
\* raises.
crud_delete_book_Unguarded(d, book_id) ==
    IF get_book(d, book_id) = None
    THEN [db |-> d, err |-> "UnmappedInstanceError", ret |-> None]
    ELSE [db |-> [d EXCEPT !.books = Remove(d.books, book_id),
                           !.user_book = {m \in d.user_book : m[2] # book_id}],
          err |-> "none", ret |-> None]

\* crud.delete_book: the row goes with its user_book rows (the secondary of
\* Book.members); Book.records has no delete cascade, so the records of the
\* book get book_id NULL.
crud_delete_book(d, book_id) ==
    IF get_book(d, book_id) = None THEN [db |-> d, err |-> "none", ret |-> None]
    ELSE [db |-> [d EXCEPT
                    !.books = Remove(d.books, book_id),
                    !.user_book = {m \in d.user_book : m[2] # book_id},
                    !.records = [r \in DOMAIN d.records |->
                        IF d.records[r].book_id = book_id
                        THEN [d.records[r] EXCEPT !.book_id = Null]
                        ELSE d.records[r]]],
          err |-> "none", ret |-> None]

\* crud.create_user_book: one user_book row.  (user_id, book_id) is the
\* primary key, and each column a ForeignKey.
create_user_book(d, user_book) ==
    IF <<user_book.user_id, user_book.book_id>> \in d.user_book
    THEN [db |-> d, err |-> "IntegrityError", ret |-> None]
    ELSE IF ForeignKeysEnforced /\ ~(user_book.user_id \in DOMAIN d.users
                                     /\ user_book.book_id \in DOMAIN d.books)
    THEN [db |-> d, err |-> "IntegrityError", ret |-> None]
    ELSE [db |-> [d EXCEPT !.user_book = @ \cup {<<user_book.user_id, user_book.book_id>>}],
          err |-> "none", ret |-> user_book]

\* ----------------------------------------------------------- crud: seeding
predefined_users ==
    << [email |-> "admin@126.com", username |-> "admin", password |-> "admin"],
       [email |-> "test@126.com", username |-> "test", password |-> "test"] >>

predefined_categories ==
    << [parent_id |-> Null, icon |-> 1, en_name |-> "Shop"],
       [parent_id |-> Null, icon |-> 2, en_name |-> "Dress"],
       [parent_id |-> Null, icon |-> 3, en_name |-> "Necessity"],
       [parent_id |-> Null, icon |-> 4, en_name |-> "Digital"],
       [parent_id |-> Null, icon |-> 5, en_name |-> "App"],
       [parent_id |-> Null, icon |-> 6, en_name |-> "Traffic"],
       [parent_id |-> Null, icon |-> 7, en_name |-> "Travel"],
       [parent_id |-> Null, icon |-> 8, en_name |-> "Food"],
       [parent_id |-> Null, icon |-> 9, en_name |-> "Entertainment"],
       [parent_id |-> 9, icon |-> 91, en_name |-> "Game"],
       [parent_id |-> 9, icon |-> 92, en_name |-> "Movie"],
       [parent_id |-> Null, icon |-> 10, en_name |-> "Life"],
       [parent_id |-> Null, icon |-> 11, en_name |-> "Others"] >>

predefined_books == << [name |-> "default", members |-> << >>] >>

predefined_user_books == << [user_id |-> 1, book_id |-> 1], [user_id |-> 2, book_id |-> 1] >>

test_records ==
    << [amount |-> 100, note |-> "test", category_id |-> 1, book_id |-> 1, type_ |-> 1],
       [amount |-> 20, note |-> "", category_id |-> 1, book_id |-> 1, type_ |-> 1],
       [amount |-> 70, note |-> "", category_id |-> 2, book_id |-> 1, type_ |-> 1],
       [amount |-> 10, note |-> "test", category_id |-> 3, book_id |-> 1, type_ |-> 1] >>

\* The for loops of the add_* functions, from entry i on: each create
\* commits on its own, and the first exception ends the loop.
RECURSIVE users_from(_, _)
users_from(d, i) ==
    IF i > Len(predefined_users) THEN [db |-> d, err |-> "none"]
    ELSE LET r == crud_create_user(d, predefined_users[i])
         IN  IF r.err # "none" THEN [db |-> r.db, err |-> r.err] ELSE users_from(r.db, i + 1)

RECURSIVE categories_from(_, _)
categories_from(d, i) ==
    IF i > Len(predefined_categories) THEN [db |-> d, err |-> "none"]
    ELSE LET r == crud_create_category(d, predefined_categories[i])
         IN  IF r.err # "none" THEN [db |-> r.db, err |-> r.err] ELSE categories_from(r.db, i + 1)

RECURSIVE books_from(_, _)
books_from(d, i) ==
    IF i > Len(predefined_books) THEN [db |-> d, err |-> "none"]
    ELSE LET r == crud_create_book(d, predefined_books[i])
         IN  IF r.err # "none" THEN [db |-> r.db, err |-> r.err] ELSE books_from(r.db, i + 1)

RECURSIVE user_books_from(_, _)
user_books_from(d, i) ==
    IF i > Len(predefined_user_books) THEN [db |-> d, err |-> "none"]
    ELSE LET r == create_user_book(d, predefined_user_books[i])
         IN  IF r.err # "none" THEN [db |-> r.db, err |-> r.err] ELSE user_books_from(r.db, i + 1)

RECURSIVE records_from(_, _, _)
records_from(d, i, t) ==
    IF i > Len(test_records) THEN [db |-> d, err |-> "none"]
    ELSE LET r == create_user_record(d, test_records[i], [id |-> 1], t)
         IN  IF r.err # "none" THEN [db |-> r.db, err |-> r.err] ELSE records_from(r.db, i + 1, t)

add_predefined_users(d) == users_from(d, 1)
add_predefined_categories(d) == categories_from(d, 1)
add_predefined_book(d) == books_from(d, 1)
add_predefined_user_book(d) == user_books_from(d, 1)
add_records_for_test(d, t) == records_from(d, 1, t)

\* The try block of startup_event: the five add_* calls in order, ended by
\* the first exception.
startup_try(d, t) ==
    LET r1 == add_predefined_users(d)
        r2 == add_predefined_categories(r1.db)
        r3 == add_predefined_book(r2.db)
        r4 == add_predefined_user_book(r3.db)
        r5 == add_records_for_test(r4.db, t)
    IN  IF r1.err # "none" THEN r1
        ELSE IF r2.err # "none" THEN r2
        ELSE IF r3.err # "none" THEN r3
        ELSE IF r4.err # "none" THEN r4
        ELSE r5

\* startup_event without its except clauses.
startup_except_None(err) == err

\* The except clauses of startup_event: the exception that leaves the
\* handler.  IntegrityError is passed over, any other Exception is logged.
startup_except(err) ==
    IF err = "IntegrityError" THEN "none"
    ELSE "none"

\* --------------------------------------------------------------- the calls
\* Keys within the model's bounds.
InBounds(d) ==
    /\ \A i \in DOMAIN d.users : i <= MaxId
    /\ \A i \in DOMAIN d.books : i <= MaxId
    /\ \A i \in DOMAIN d.categories : i <= MaxCategoryId

\* The record of a call; rep is 2 when the call before was the same call.
Call(op, arg, res) ==
    [op |-> op, arg |-> arg, res |-> res,
     rep |-> IF last.op = op /\ last.arg = arg THEN 2 ELSE 1]

\* What a handler hands back: the value a crud function returned, or the
\* exception that left it.
Response(r) ==
    IF r.err = "none" THEN [status |-> 200, body |-> r.ret, err |-> "none"]
    ELSE [status |-> 500, body |-> None, err |-> r.err]

Init ==
    /\ db = EmptyDb
    /\ now = 0
    /\ token = None
    /\ last = [op |-> "init", arg |-> None, res |-> None, rep |-> 1]

startup_event ==
    LET r == startup_try(db, now)
    IN  /\ InBounds(r.db)
        /\ db' = r.db
        /\ last' = Call("startup_event", None,
                        [status |-> 0, body |-> None, err |-> startup_except(r.err)])
        /\ UNCHANGED <<now, token>>

\* POST /token
login_for_access_token ==
    \E username \in Usernames, password \in Passwords :
        LET user == authenticate_user(db, username, password)
            form_data == [username |-> username, password |-> password]
        IN  IF user = None
            THEN /\ last' = Call("login_for_access_token", form_data,
                                 [status |-> 401, body |-> None, err |-> "none"])
                 /\ UNCHANGED <<db, now, token>>
            ELSE LET access_token ==
                         create_access_token([sub |-> user.row.username],
                                             ACCESS_TOKEN_EXPIRE_MINUTES, now)
                 IN  /\ token' = access_token
                     /\ last' = Call("login_for_access_token", form_data,
                                     [status |-> 200,
                                      body |-> [access_token |-> access_token,
                                                token_type |-> "bearer"],
                                      err |-> "none"])
                     /\ UNCHANGED <<db, now>>

\* POST /users without the get_user_by_email test.
create_user_NoEmailTest ==
    \E user \in UserCreate :
        LET r == crud_create_user(db, user)
        IN  /\ InBounds(r.db)
            /\ db' = r.db
            /\ last' = Call("create_user", user, Response(r))
            /\ UNCHANGED <<now, token>>

\* POST /users
create_user ==
    \E user \in UserCreate :
        IF get_user_by_email(db, user.email) # None
        THEN /\ last' = Call("create_user", user, [status |-> 400, body |-> None, err |-> "none"])
             /\ UNCHANGED <<db, now, token>>
        ELSE LET r == crud_create_user(db, user)
             IN  /\ InBounds(r.db)
                 /\ db' = r.db
                 /\ last' = Call("create_user", user, Response(r))
                 /\ UNCHANGED <<now, token>>

\* PUT /users/{user_id}
update_user ==
    \E user_id \in IdInputs, user \in UserCreate :
        LET r == crud_update_user(db, user_id, user)
        IN  /\ db' = r.db
            /\ last' = Call("update_user", user_id, Response(r))
            /\ UNCHANGED <<now, token>>

\* crud.delete_user (no route calls it)
delete_user ==
    \E user_id \in IdInputs :
        LET r == crud_delete_user(db, user_id)
        IN  /\ db' = r.db
            /\ last' = Call("delete_user", user_id, Response(r))
            /\ UNCHANGED <<now, token>>

\* POST /records: crud.create_user_record is called without user_id.
create_record ==
    \E record \in RecordCreate :
        LET r == create_user_record(db, record, None, now)
        IN  /\ db' = r.db
            /\ last' = Call("create_record", record, Response(r))
            /\ UNCHANGED <<now, token>>

\* PUT /records/{record_id}
update_record ==
    \E record_id \in IdInputs, record \in RecordCreate :
        LET r == crud_update_record(db, record_id, record)
        IN  /\ db' = r.db
            /\ last' = Call("update_record", record_id, Response(r))
            /\ UNCHANGED <<now, token>>

\* DELETE /records/{record_id}
delete_record ==
    \E record_id \in IdInputs :
        LET r == crud_delete_record(db, record_id)
        IN  /\ db' = r.db
            /\ last' = Call("delete_record", record_id, Response(r))
            /\ UNCHANGED <<now, token>>

\* POST /categories
create_category ==
    \E category \in CategoryCreate :
        LET r == crud_create_category(db, category)
        IN  /\ InBounds(r.db)
            /\ db' = r.db
            /\ last' = Call("create_category", category, Response(r))
            /\ UNCHANGED <<now, token>>

\* PUT /categories/{category_id}
update_category ==
    \E category_id \in IdInputs, category \in CategoryCreate :
        LET r == crud_update_category(db, category_id, category)
        IN  /\ db' = r.db
            /\ last' = Call("update_category", category_id, Response(r))
            /\ UNCHANGED <<now, token>>

\* DELETE /categories/{category_id}
delete_category ==
    \E category_id \in IdInputs :
        LET r == crud_delete_category(db, category_id)
        IN  /\ db' = r.db
            /\ last' = Call("delete_category", category_id, Response(r))
            /\ UNCHANGED <<now, token>>

\* POST /books
create_book ==
    \E book \in BookCreate :
        LET r == crud_create_book(db, book)
        IN  /\ InBounds(r.db)
            /\ db' = r.db
            /\ last' = Call("create_book", book, Response(r))
            /\ UNCHANGED <<now, token>>

\* PUT /books/{book_id}
update_book ==
    \E book_id \in IdInputs, book \in BookCreate :
        LET r == crud_update_book(db, book_id, book)
        IN  /\ db' = r.db
            /\ last' = Call("update_book", book_id, Response(r))
            /\ UNCHANGED <<now, token>>

\* DELETE /books/{book_id}
delete_book ==
    \E book_id \in IdInputs :
        LET r == crud_delete_book(db, book_id)
        IN  /\ db' = r.db
            /\ last' = Call("delete_book", book_id, Response(r))
            /\ UNCHANGED <<now, token>>

\* The clock advances.
Tick ==
    /\ now < MaxClock
    /\ now' = now + 1
    /\ UNCHANGED <<db, token, last>>

\* The calls on the store of records, categories, books and users; users
\* enter through the seeding here, and through POST /users in NextAuth.
Next ==
    \/ startup_event
    \/ update_user \/ delete_user
    \/ create_record \/ update_record \/ delete_record
    \/ create_category \/ update_category \/ delete_category
    \/ create_book \/ update_book \/ delete_book

\* The calls on users and tokens, as time passes.
NextAuth ==
    \/ startup_event
    \/ create_user \/ update_user \/ delete_user
    \/ login_for_access_token
    \/ Tick

Spec == Init /\ [][Next]_vars

SpecAuth == Init /\ [][NextAuth]_vars

\* ------------------------------------------------------------ properties
\* The step is a call of op (the clock's steps leave last and db alone).
Called(op) == last'.op = op /\ (last.op = op => (last' # last \/ db' # db))

UserWithEmail(d, email) == \E i \in DOMAIN d.users : d.users[i].email = email
UserWithUsername(d, username) == \E i \in DOMAIN d.users : d.users[i].username = username

\* C1: no two stored users share an email, and no two share a username.
C1_UniqueEmailAndUsername ==
    \A i, j \in DOMAIN db.users :
        i # j => /\ db.users[i].email # db.users[j].email
                 /\ db.users[i].username # db.users[j].username

\* Two users are stored and POST /users has just been refused by the
\* unique columns.
C1_Witness ==
    /\ Cardinality(DOMAIN db.users) >= 2
    /\ last.op = "create_user"
    /\ last.res.err = "IntegrityError"

\* The first half of C2: POST /users with a stored email answers 400 and
\* leaves the store as it was.
C2_Conflict ==
    get_user_by_email(db, last'.arg.email) # None
        => last'.res.status = 400 /\ db' = db

\* What C2 promises of a successful POST /users: the new user has a key no
\* user had, and get_user with that key and get_user_by_email with that
\* email return it.
C2_Created ==
    /\ last'.res.status = 200
    /\ last'.res.body.id \notin DOMAIN db.users
    /\ last'.res.body.row.email = last'.arg.email
    /\ last'.res.body.row.username = last'.arg.username
    /\ get_user(db', last'.res.body.id) = last'.res.body
    /\ get_user_by_email(db', last'.arg.email) = last'.res.body

\* C2 as stated: POST /users with a stored email is refused with 400 and
\* changes nothing; with an email not yet stored it succeeds and the user
\* is retrievable by id and by email.
C2_AsStated ==
    [][Called("create_user") =>
        /\ C2_Conflict
        /\ get_user_by_email(db, last'.arg.email) = None => C2_Created]_vars

\* C2 amended: the success needs the username to be new as well; a new
\* email under a stored username is refused by the unique username column,
\* and nothing is stored.
C2_CreateUser ==
    [][Called("create_user") =>
        /\ C2_Conflict
        /\ (/\ get_user_by_email(db, last'.arg.email) = None
            /\ get_user_by_username(db, last'.arg.username) = None) => C2_Created
        /\ (/\ get_user_by_email(db, last'.arg.email) = None
            /\ get_user_by_username(db, last'.arg.username) # None)
               => last'.res.err = "IntegrityError" /\ db' = db]_vars

\* POST /users has just answered 400 to a stored email.
C2_Witness ==
    /\ last.op = "create_user"
    /\ last.res.status = 400
    /\ UserWithEmail(db, last.arg.email)

\* C3 as stated: the token the client holds validates at every instant up
\* to its expiry and is refused with 401 after it.
C3_AsStated ==
    token # None =>
        /\ now <= token.claims.exp => get_current_user(db, token, now).status = 200
        /\ now > token.claims.exp => get_current_user(db, token, now).status = 401

\* C3 amended: up to its expiry the token validates whenever a stored user
\* has its subject as username, and is refused with 401 while none has;
\* after its expiry it is refused with 401, and from then on it stays
\* refused.
C3_TokenLifetime ==
    /\ [](token # None =>
            /\ (now <= token.claims.exp /\ UserWithUsername(db, token.claims.sub))
                   => get_current_user(db, token, now).status = 200
            /\ (now <= token.claims.exp /\ ~UserWithUsername(db, token.claims.sub))
                   => get_current_user(db, token, now).status = 401
            /\ now > token.claims.exp => get_current_user(db, token, now).status = 401)
    /\ [][(token # None /\ token' = token /\ get_current_user(db, token, now).status = 401
             /\ now > token.claims.exp)
            => get_current_user(db', token', now').status = 401]_vars

\* The client holds a token whose expiry has passed while its user is
\* still stored.
C3_Witness ==
    /\ token # None
    /\ now > token.claims.exp
    /\ UserWithUsername(db, token.claims.sub)

\* C4: POST /token answers with a bearer token only when a stored user has
\* the username and the password verifies against that user's hash, and the
\* token's subject is the username; otherwise it answers 401, hands out no
\* token and the client's token stays what it was.
C4_Login ==
    /\ [](last.op = "login_for_access_token" =>
            LET matches == \E i \in DOMAIN db.users :
                               /\ db.users[i].username = last.arg.username
                               /\ verify_password(last.arg.password, db.users[i].hashed_password)
            IN  /\ last.res.status \in {200, 401}
                /\ last.res.status = 200 =>
                       /\ matches
                       /\ last.res.body.token_type = "bearer"
                       /\ last.res.body.access_token.claims.sub = last.arg.username
                       /\ last.res.body.access_token = token
                /\ ~matches => last.res.status = 401 /\ last.res.body = None)
    /\ [][(Called("login_for_access_token") /\ last'.res.status = 401) => token' = token]_vars

\* POST /token has just answered 401 to a stored username with the wrong
\* password.
C4_Witness ==
    /\ last.op = "login_for_access_token"
    /\ last.res.status = 401
    /\ UserWithUsername(db, last.arg.username)

\* Tokens with a good signature a client may present.
SignedTokens ==
    { [claims |-> [sub |-> u, exp |-> e], key |-> SECRET_KEY] :
        u \in Usernames, e \in 0..(MaxClock + ACCESS_TOKEN_EXPIRE_MINUTES) }

\* C5: a signature-valid, unexpired token resolves to the stored user whose
\* username is the token's subject, and to 401 when no stored user has it.
C5_CurrentUser ==
    \A tok \in SignedTokens :
        now <= tok.claims.exp =>
            LET res == get_current_user(db, tok, now)
            IN  IF UserWithUsername(db, tok.claims.sub)
                THEN /\ res.status = 200
                     /\ res.body.row.username = tok.claims.sub
                     /\ get_user(db, res.body.id) = res.body
                ELSE res.status = 401 /\ res.body = None

\* The client holds an unexpired token whose user has been deleted.
C5_Witness ==
    /\ token # None
    /\ now <= token.claims.exp
    /\ ~UserWithUsername(db, token.claims.sub)
    /\ last.op = "delete_user"

\* C7: POST /records with the keys of a stored category and a stored book
\* succeeds, and the record it returns has a key no record had, add_by and
\* add_at set, and is what get_record returns for that key.
C7_CreateRecord ==
    [][(/\ Called("create_record")
        /\ get_category(db, last'.arg.category_id) # None
        /\ get_book(db, last'.arg.book_id) # None)
       => /\ last'.res.status = 200
          /\ last'.res.body.id \notin DOMAIN db.records
          /\ get_record(db', last'.res.body.id) = last'.res.body]_vars

NoRecordStored == db.records = << >>

DeleteOps == {"delete_user", "delete_record", "delete_category", "delete_book"}

\* The row a delete call was about, in store d.
Target(d, call) ==
    CASE call.op = "delete_user" -> get_user(d, call.arg)
      [] call.op = "delete_record" -> get_record(d, call.arg)
      [] call.op = "delete_category" -> get_category(d, call.arg)
      [] call.op = "delete_book" -> get_book(d, call.arg)

\* C9: a delete that repeats the delete before it changes nothing and
\* raises nothing; a delete of a key with no row changes nothing; and in
\* every store, deleting a key twice gives the store deleting it once gives.
C9_DeleteIdempotent ==
    /\ [][\A op \in DeleteOps :
            /\ (Called(op) /\ last'.rep = 2) => db' = db /\ last'.res.err = "none"
            /\ (Called(op) /\ Target(db, last') = None) => db' = db /\ last'.res.err = "none"]_vars
    /\ [](\A id \in IdInputs :
            /\ crud_delete_user(crud_delete_user(db, id).db, id) = crud_delete_user(db, id)
            /\ crud_delete_record(crud_delete_record(db, id).db, id) = crud_delete_record(db, id)
            /\ crud_delete_category(crud_delete_category(db, id).db, id) = crud_delete_category(db, id)
            /\ crud_delete_book(crud_delete_book(db, id).db, id) = crud_delete_book(db, id))

\* DELETE /books/{book_id} has just been called a second time in a row
\* with the same key, and other books are stored.
C9_Witness ==
    /\ last.op = "delete_book"
    /\ last.rep = 2
    /\ db.books # << >>

\* A store that holds the users a seeding run stores.
AlreadySeeded(d) ==
    \A i \in 1..Len(predefined_users) :
        /\ UserWithEmail(d, predefined_users[i].email)
        /\ UserWithUsername(d, predefined_users[i].username)

====
